---- MODULE Spec2Model ----
(***************************************************************************)
(* The scan engine of the IKEA gallery checker.                            *)
(*                                                                         *)
(*   server  src/app/api/scan/route.ts, second revision (lines 224-557):   *)
(*           POST, its ReadableStream start() loop, and                    *)
(*           detectBrokenGalleriesWithSteps (the Executor);                *)
(*           src/lib/utils.ts detectCloudflareBlocking                     *)
(*   client  src/app/page.tsx startScan (same code in src/unnamed/part_001)*)
(*                                                                         *)
(* JavaScript runs every stretch of code between two awaits without        *)
(* interruption, so one action is one such stretch: it starts when the     *)
(* awaited promise settles (the environment picks how) and runs to the     *)
(* next await.  pc names the await the server is suspended at.             *)
(*                                                                         *)
(* HTML is a sequence of tokens:                                           *)
(*   "C"   <div class="... c1s88gxp ... a1wqrctr ...">  (container open)   *)
(*   "D"   any other <div ...> open tag                                    *)
(*   "E"   </div>                                                          *)
(*   "V"   <video ...>                                                     *)
(*   "S"   an element whose class holds pub__shoppable-image               *)
(*   "SD"  an element whose class holds pub__shoppable-image ...           *)
(*         --visible-dots in the same attribute                            *)
(*   "DS"  an element whose class holds --visible-dots before              *)
(*         pub__shoppable-image, and not after it                          *)
(*   "I"   <img ...>                                                       *)
(*   "X"   a <script>...</script> or <style>...</style> block              *)
(*   "B" "/B"  <body ...> and </body>                                      *)
(*   "RL" "CB" "CC" "RAY"  the four Cloudflare challenge texts             *)
(***************************************************************************)
EXTENDS Integers, Sequences, FiniteSets, TLC

VARIABLES
    request,          \* the POST being handled: [from, body]
    httpStatus,       \* status of the HTTP response of that POST, 0 = none yet
    pc,               \* the await the server is suspended at, or a terminal state
    idx,              \* position in urls of the URL in the for loop (0 = before)
    steps,            \* steps array of the current loop iteration
    stream,           \* events enqueued on the ReadableStream so far
    streamState,      \* "none" | "readable" | "closed" | "cancelled"
    ex,               \* locals of the running Executor
    openBrowsers,     \* positions whose launched browser was not closed
    started,          \* positions the Executor was called for
    outcomes,         \* per finished Executor run: returned items or raised
    faults,           \* number of rejected awaits so far in this run
    liveResults,      \* client: URLScanStatus[]
    closureLive,      \* client: liveResults as captured by the running startScan
    results,          \* client: ScanResult or NoResults
    isScanning,       \* client
    cursor,           \* client: number of stream events read
    submitted,        \* number of URLs the page submitted so far
    statusIn,         \* item statuses given to the status resolution
    statusOut,        \* the status it resolved, "" before it ran
    classPage,        \* the page given to the classification: [html, pu]
    classItems,       \* the items the last classification returned
    classWatched,     \* a page whose classifications are compared
    classFirst,       \* what the first classification of classWatched returned
    collapseIn,       \* items given to the collapse by page_url
    collapseOut,      \* the representatives it produced
    detectIn,         \* status, headers and body given to detectCloudflareBlocking
    detectOut,        \* what its calls on detectIn returned, in call order
    runs              \* two POST requests handled at the same time: [urls, ...]

serverVars == <<request, httpStatus, pc, idx, steps, stream, streamState,
                ex, openBrowsers, started, outcomes, faults>>
clientVars == <<liveResults, closureLive, results, isScanning, cursor, submitted>>
classVars    == <<classPage, classItems, classWatched, classFirst>>
collapseVars == <<collapseIn, collapseOut>>
detectVars   == <<detectIn, detectOut>>
\* the variables that the page and the request it talks to leave alone
pureVars   == <<statusIn, statusOut, classVars, collapseVars, detectVars, runs>>
vars       == <<serverVars, clientVars, pureVars>>

(***************************************************************************)
(* Bounds                                                                  *)
(***************************************************************************)
MaxUrls   == 2      \* URLs submitted in one run, over all its POSTs
MaxFaults == 2      \* awaited operations that reject in one run
MaxLag    == 0      \* events the server may be ahead of the client's reader
MaxItems  == 4      \* length of an item list in the status-resolution check
MaxHtml   == 5      \* tokens of a page in the classification check
MaxCollapse == 3    \* items given to the collapse check

Urls == {"https://a", "https://b"}

RECURSIVE SeqsUpTo(_, _)
SeqsUpTo(S, n) ==
    IF n = 0 THEN {<<>>}
    ELSE LET shorter == SeqsUpTo(S, n - 1)
         IN  shorter \cup {Append(s, x) : s \in {t \in shorter : Len(t) = n - 1}, x \in S}

Range(s) == {s[i] : i \in 1..Len(s)}

(***************************************************************************)
(* Values thrown by rejected awaits                                        *)
(***************************************************************************)
NoError == [isError |-> FALSE, message |-> "<none>"]
Thrown == {[isError |-> TRUE, message |-> "fetch failed"],
           [isError |-> FALSE, message |-> "<not an Error>"]}
\* fetch: the second read of a consumed body rejects with this TypeError
BodyUnusable == [isError |-> TRUE, message |-> "Body is unusable: Body has already been read"]
\* streams: enqueue() and close() on a stream that is no longer readable
ControllerClosed == [isError |-> TRUE, message |-> "Invalid state: Controller is already closed"]

\* error instanceof Error ? error.message : "Unknown error"
ErrorMessage(e) == IF e.isError THEN e.message ELSE "Unknown error"

(***************************************************************************)
(* src/lib/utils.ts: detectCloudflareBlocking(status, headers, html)       *)
(***************************************************************************)
\* server header values that contain the substring "cloudflare"
IncludesCloudflare(v) == v \in {"cloudflare", "cloudflare-nginx"}

\* a slip of 19-24: the "cloudflare-challenge" test left out
ChallengeTextsNoChallenge == {"RL", "CB", "RAY"}

ChallengeTexts == {"RL", "CB", "CC", "RAY"}

\* a slip of 10: the test of 503 left out
detectCloudflareBlockingNo503(status, headers, body) ==
    \/ status \in {403, 429}
    \/ IncludesCloudflare(headers.server) \/ headers.cfRay # ""
    \/ Range(body) \cap ChallengeTexts # {}

detectCloudflareBlocking(status, headers, body) ==
    \/ status \in {403, 429, 503}
    \/ IncludesCloudflare(headers.server) \/ headers.cfRay # ""
    \/ Range(body) \cap ChallengeTexts # {}

(***************************************************************************)
(* The classifier: route.ts 355-435 without its onStep calls               *)
(***************************************************************************)
\* index of the first </div> at or after i, 0 when there is none
FirstClose(h, i) ==
    LET closes == {j \in i..Len(h) : h[j] = "E"}
    IN  IF closes = {} THEN 0
        ELSE CHOOSE j \in closes : \A k \in closes : j <= k

\* the matches of containerRegex in h, searched from index i on: each match
\* runs from a container open tag to the first </div> after it, and the
\* search goes on behind the match
RECURSIVE MatchAll(_, _)
MatchAll(h, i) ==
    IF i > Len(h) THEN <<>>
    ELSE IF h[i] # "C" THEN MatchAll(h, i + 1)
    ELSE LET j == FirstClose(h, i + 1)
         IN  IF j = 0 THEN <<>>
             ELSE <<[div |-> SubSeq(h, i, j), content |-> SubSeq(h, i + 1, j - 1)]>>
                  \o MatchAll(h, j + 1)

containers(h) == MatchAll(h, 1)

\* a slip of 394: the markup is not cut
SubstringNoCut(s, n) == s

\* String.prototype.substring(0, n), one token counted as one character
Substring(s, n) == SubSeq(s, 1, IF Len(s) < n THEN Len(s) ELSE n)

ImageUrlCap == 500

hasVideo(content)          == "V" \in Range(content)
hasWorkingGallery(content) == "SD" \in Range(content)
hasShoppableImage(content) == Range(content) \cap {"S", "SD", "DS"} # {}

Item(url, image, alt, reason, status, scraped, pu, debug, cf) ==
    [page_url |-> url, image_url |-> image, alt_text |-> alt, reason |-> reason,
     status |-> status, scraped_html |-> scraped, puppeteer_used |-> pu,
     debug_info |-> debug, cloudflare_blocked |-> cf]

NoGalleryItem(url, pu) ==
    Item(url, <<>>, "", "No curated gallery components found on this page",
         "no curated gallery", <<>>, pu, "", FALSE)

\* a slip of 404-431: the two broken cases are not exclusive
ContainerItemsBothPushed(m, url, h, pu) ==
    IF hasVideo(m.content) THEN <<>>
    ELSE IF hasWorkingGallery(m.content)
    THEN <<Item(url, Substring(m.div, ImageUrlCap), "Curated gallery with visible dots",
                "Shoppable gallery is working properly", "working", h, pu, "", FALSE)>>
    ELSE <<Item(url, Substring(m.div, ImageUrlCap), "Broken curated gallery",
                "Container has image but missing pub__shoppable-image component",
                "broken", h, pu, "", FALSE),
           Item(url, Substring(m.div, ImageUrlCap), "Gallery without visible dots",
                "Shoppable gallery missing --visible-dots class", "broken", h, pu, "", FALSE)>>

\* the item pushed for one container match, <<>> for a video container
ContainerItems(m, url, h, pu) ==
    IF hasVideo(m.content) THEN <<>>
    ELSE IF hasWorkingGallery(m.content)
    THEN <<Item(url, Substring(m.div, ImageUrlCap), "Curated gallery with visible dots",
                "Shoppable gallery is working properly", "working", h, pu, "", FALSE)>>
    ELSE IF ~hasShoppableImage(m.content)
    THEN <<Item(url, Substring(m.div, ImageUrlCap), "Broken curated gallery",
                "Container has image but missing pub__shoppable-image component",
                "broken", h, pu, "", FALSE)>>
    ELSE <<Item(url, Substring(m.div, ImageUrlCap), "Gallery without visible dots",
                "Shoppable gallery missing --visible-dots class", "broken", h, pu, "", FALSE)>>

\* a slip of 380-432: the items are put in front of the earlier ones
RECURSIVE ContainerLoopReversed(_, _, _, _, _)
ContainerLoopReversed(ms, i, url, h, pu) ==
    IF i > Len(ms) THEN <<>>
    ELSE ContainerLoopReversed(ms, i + 1, url, h, pu) \o ContainerItems(ms[i], url, h, pu)

\* the items pushed for the matches ms[i], ms[i+1], ...
RECURSIVE ContainerLoop(_, _, _, _, _)
ContainerLoop(ms, i, url, h, pu) ==
    IF i > Len(ms) THEN <<>>
    ELSE ContainerItems(ms[i], url, h, pu) \o ContainerLoop(ms, i + 1, url, h, pu)

\* the items pushed by the while loop over containerRegex.exec(html)
brokenItems(url, h, pu) == ContainerLoop(containers(h), 1, url, h, pu)

\* a slip of 361-376: no item when the page has no container
classifyNoDefault(url, h, pu) == brokenItems(url, h, pu)

\* route.ts 355-435: what the classification returns for html
classify(url, h, pu) ==
    IF Len(containers(h)) = 0 THEN <<NoGalleryItem(url, pu)>>
    ELSE brokenItems(url, h, pu)

\* no page was given to the classification yet
NoPage == [html |-> <<>>, pu |-> FALSE, classified |-> FALSE]

\* the record kept of the classifications of classWatched: the items of the
\* first one, whether another page was classified after it, and whether
\* classWatched was classified again after that
NotClassified == [known |-> FALSE, items |-> <<>>, between |-> FALSE, again |-> FALSE]

\* a slip of 316-327: the blocked item is not flagged
BlockedItemNotFlagged(url) ==
    Item(url, <<"N/A">>, "", "Cloudflare is blocking requests", "broken", <<>>, FALSE,
         "Cloudflare blocking detected", FALSE)

BlockedItem(url) ==
    Item(url, <<"N/A">>, "", "Cloudflare is blocking requests", "broken", <<>>, FALSE,
         "Cloudflare blocking detected", TRUE)

\* a slip of 337: the reason does not carry the status code
StatusItemNoCode(url, status) ==
    Item(url, <<"N/A">>, "", "Page returned an error status", "broken", <<>>,
         FALSE, "Fetch status: " \o ToString(status), FALSE)

StatusItem(url, status) ==
    Item(url, <<"N/A">>, "", "Page returned status " \o ToString(status), "broken", <<>>,
         FALSE, "Fetch status: " \o ToString(status), FALSE)

\* a slip of 446: the item of the outer catch carries the flag of the run
FatalItemFlagOfRun(url, errorMessage) ==
    Item(url, <<"N/A">>, "", "Scan failed: " \o errorMessage, "broken", <<>>,
         ex.puppeteerUsed, "Fatal error: " \o errorMessage, FALSE)

FatalItem(url, errorMessage) ==
    Item(url, <<"N/A">>, "", "Scan failed: " \o errorMessage, "broken", <<>>, FALSE,
         "Fatal error: " \o errorMessage, FALSE)

\* route.ts 289-295: the <body> subtree without script and style blocks
StripBlocks(h) == SelectSeq(h, LAMBDA t : t # "X")

(***************************************************************************)
(* route.ts 490-511: the status of a URL from the statuses of its items    *)
(***************************************************************************)
\* a slip of 505-511: "no curated gallery" tested without !hasAnyWorking
urlStatusNoGalleryFirst(statuses) ==
    LET hasAnyBroken  == \E i \in 1..Len(statuses) : statuses[i] = "broken"
        hasNoGallery  == \E i \in 1..Len(statuses) : statuses[i] = "no curated gallery"
    IN  IF hasAnyBroken THEN "broken"
        ELSE IF hasNoGallery THEN "no curated gallery"
        ELSE "working"

urlStatus(statuses) ==
    LET hasAnyBroken  == \E i \in 1..Len(statuses) : statuses[i] = "broken"
        hasAnyWorking == \E i \in 1..Len(statuses) : statuses[i] = "working"
        hasNoGallery  == \E i \in 1..Len(statuses) : statuses[i] = "no curated gallery"
    IN  IF hasAnyBroken THEN "broken"
        ELSE IF hasNoGallery /\ ~hasAnyWorking THEN "no curated gallery"
        ELSE "working"

StatusesOf(items) == [i \in 1..Len(items) |-> items[i].status]

(***************************************************************************)
(* Requests                                                                *)
(***************************************************************************)
\* a request body: what request.json() does with it, and its urls field
Body(parse, kind, list) == [parse |-> parse, urlsKind |-> kind, urls |-> list]

UrlLists == SeqsUpTo(Urls, MaxUrls)

\* bodies the page sends: JSON.stringify({ urls })
PageBodies == {Body("object", "array", l) : l \in UrlLists}

\* bodies only another HTTP client can send
OtherBodies == {Body("throws", "absent", <<>>),     \* not JSON
                Body("null", "absent", <<>>),       \* the JSON value null
                Body("object", "absent", <<>>),     \* {} or any non-null JSON without urls
                Body("object", "notArray", <<>>)}   \* {"urls": "https://a"}

NoRequest == [from |-> "none", body |-> Body("throws", "absent", <<>>)]

\* const { urls } = await request.json()
urls == request.body.urls

(***************************************************************************)
(* Events and the progress callback (route.ts 473-485)                     *)
(***************************************************************************)
Event(i, status, st, current, hasResult, items) ==
    [pos |-> i, url |-> urls[i], status |-> status, steps |-> st,
     currentStep |-> current, hasResult |-> hasResult, items |-> items]

Readable == streamState = "readable"

\* steps.push(step); controller.enqueue(...): enqueue throws when the stream
\* is not readable, after the push
onStep(i, readable, st, str, step) ==
    LET pushed == Append(st, step)
    IN  [steps  |-> pushed,
         stream |-> IF readable
                    THEN Append(str, Event(i, "processing", pushed, step, FALSE, <<>>))
                    ELSE str,
         threw  |-> ~readable]

NoResponse == [status |-> 0, headers |-> [server |-> "", cfRay |-> ""], body |-> <<>>]

ExInit == [html |-> <<>>, puppeteerUsed |-> FALSE, cloudflareBlocked |-> FALSE,
           response |-> NoResponse]

\* the two requests that are handled at the same time, and a request that
\* has not arrived
RunIds == {1, 2}
NoRun == [urls |-> <<>>, pc |-> "none", idx |-> 0, steps |-> <<>>, stream |-> <<>>,
          reported |-> <<>>]
NoRuns == [r \in RunIds |-> NoRun]

(***************************************************************************)
(* The stretches of code that end an Executor run and go on in start()     *)
(***************************************************************************)
\* the Executor is suspended at await p
Suspend(p, r, x) ==
    /\ pc' = p
    /\ steps' = r.steps
    /\ stream' = r.stream
    /\ ex' = x
    /\ UNCHANGED <<idx, streamState, started, outcomes>>

\* an error leaves start(): the loop is over and nothing closes the stream
Errored(st, str, outs) ==
    /\ pc' = "errored"
    /\ steps' = st
    /\ stream' = str
    /\ ex' = ExInit
    /\ outcomes' = outs
    /\ UNCHANGED <<idx, streamState, started>>

\* a slip of 542: the stream is left open after the last URL
AdvanceLeavesOpen(readable, st, str, outs) ==
    IF idx < Len(urls)
    THEN LET r == onStep(idx + 1, readable, <<>>, str, "Initializing...")
         IN  /\ idx' = idx + 1
             /\ started' = started \cup {idx + 1}
             /\ ex' = ExInit
             /\ pc' = "import"
             /\ steps' = r.steps
             /\ stream' = r.stream
             /\ streamState' = "readable"
             /\ outcomes' = outs
    ELSE /\ pc' = "errored"
         /\ streamState' = streamState
         /\ steps' = st
         /\ stream' = str
         /\ ex' = ExInit
         /\ outcomes' = outs
         /\ UNCHANGED <<idx, started>>

\* route.ts 468-472, 488, 232-241: the next iteration calls the Executor, which
\* runs to its first await; 542: after the last URL the stream is closed
Advance(readable, st, str, outs) ==
    IF idx < Len(urls)
    THEN LET r  == onStep(idx + 1, readable, <<>>, str, "Initializing...")
             r2 == onStep(idx + 1, readable, r.steps, r.stream,
                          "Error: " \o ErrorMessage(ControllerClosed))
         IN  /\ idx' = idx + 1
             /\ started' = started \cup {idx + 1}
             /\ ex' = ExInit
             /\ IF r.threw
                THEN \* 436-438 throws again, and so does the enqueue at 529
                     /\ pc' = "errored"
                     /\ steps' = r2.steps
                     /\ stream' = str
                     /\ streamState' = streamState
                     /\ outcomes' = Append(outs, [kind |-> "raised", items |-> <<>>,
                                                  caught |-> ControllerClosed])
                ELSE /\ pc' = "import"
                     /\ steps' = r.steps
                     /\ stream' = r.stream
                     /\ streamState' = "readable"
                     /\ outcomes' = outs
    ELSE /\ pc' = IF readable THEN "closed" ELSE "errored"
         /\ streamState' = IF readable THEN "closed" ELSE streamState
         /\ steps' = st
         /\ stream' = str
         /\ ex' = ExInit
         /\ outcomes' = outs
         /\ UNCHANGED <<idx, started>>

\* a slip of 513-526: the final record carries finalStatus ("completed")
ExecReturnsFinalStatus(items, caught, st, str) ==
    LET outs == Append(outcomes, [kind |-> "returned", items |-> items, caught |-> caught])
        ev   == Event(idx, "completed", st, "Complete", TRUE, items)
    IN  IF Readable
        THEN Advance(TRUE, st, Append(str, ev), outs)
        ELSE Errored(st, str, outs)

\* a slip of 513-526: the loop goes on without the final record
ExecReturnsNoFinal(items, caught, st, str) ==
    LET outs == Append(outcomes, [kind |-> "returned", items |-> items, caught |-> caught])
    IN  IF Readable
        THEN Advance(TRUE, st, str, outs)
        ELSE Errored(st, str, outs)

\* route.ts 488-526: the Executor returned items
ExecReturns(items, caught, st, str) ==
    LET outs == Append(outcomes, [kind |-> "returned", items |-> items, caught |-> caught])
        ev   == Event(idx, urlStatus(StatusesOf(items)), st, "Complete", TRUE, items)
    IN  IF Readable
        THEN Advance(TRUE, st, Append(str, ev), outs)
        ELSE Errored(st, str, outs)     \* 516 throws, then 529 throws

\* route.ts 527-540: the Executor raised
ExecRaises(e, st, str) ==
    LET outs == Append(outcomes, [kind |-> "raised", items |-> <<>>, caught |-> e])
        ev   == Event(idx, "broken", Append(st, "Failed"), "Failed", TRUE, <<>>)
    IN  IF Readable
        THEN Advance(TRUE, st, Append(str, ev), outs)
        ELSE Errored(st, str, outs)     \* 529 throws

\* a slip of 436-452: the outer catch rethrows
OuterCatchRethrows(e, st, str) ==
    LET r == onStep(idx, Readable, st, str, "Error: " \o ErrorMessage(e))
    IN  ExecRaises(e, r.steps, r.stream)

\* route.ts 436-452: the outer catch of the Executor
OuterCatch(e, st, str) ==
    LET errorMessage == ErrorMessage(e)
        r == onStep(idx, Readable, st, str, "Error: " \o errorMessage)
    IN  IF r.threw
        THEN ExecRaises(ControllerClosed, r.steps, r.stream)
        ELSE ExecReturns(<<FatalItem(urls[idx], errorMessage)>>, e, r.steps, r.stream)

\* route.ts 296-303: the primary path threw e, which is dropped
Fallback(st, str, x) ==
    LET r == onStep(idx, Readable, st, str, "Puppeteer failed, using fetch...")
    IN  IF r.threw
        THEN OuterCatch(ControllerClosed, r.steps, r.stream)
        ELSE Suspend("fetch", r, x)

\* route.ts 355-435 with its onStep calls
Analyze(st, str, x) ==
    LET url == urls[idx]
        n   == Len(containers(x.html))
        r1  == onStep(idx, Readable, st, str, "Analyzing galleries...")
        r2  == onStep(idx, Readable, r1.steps, r1.stream, "No curated galleries found")
        r3  == onStep(idx, Readable, r1.steps, r1.stream,
                      "Found " \o ToString(n) \o " gallery container(s)")
        r4  == onStep(idx, Readable, r3.steps, r3.stream, "Analysis complete")
    IN  IF r1.threw THEN OuterCatch(ControllerClosed, r1.steps, r1.stream)
        ELSE IF n = 0
        THEN IF r2.threw THEN OuterCatch(ControllerClosed, r2.steps, r2.stream)
             ELSE ExecReturns(<<NoGalleryItem(url, x.puppeteerUsed)>>, NoError,
                              r2.steps, r2.stream)
        ELSE IF r3.threw THEN OuterCatch(ControllerClosed, r3.steps, r3.stream)
        ELSE IF r4.threw THEN OuterCatch(ControllerClosed, r4.steps, r4.stream)
        ELSE ExecReturns(brokenItems(url, x.html, x.puppeteerUsed), NoError,
                         r4.steps, r4.stream)

(***************************************************************************)
(* What the environment can answer                                         *)
(***************************************************************************)
\* page.content(): the serialized DOM
Doms == {<<"B", "/B">>,
         <<"B", "C", "V", "E", "/B">>,
         <<"B", "X", "C", "SD", "E", "/B">>,
         <<"B", "C", "V", "E", "C", "S", "E", "/B">>}

Response(status, server, cfRay, body) ==
    [status |-> status, headers |-> [server |-> server, cfRay |-> cfRay], body |-> body]

\* fetch(url): the responses of the plain HTTP GET
Responses == {Response(200, "nginx", "", <<"C", "SD", "E">>),
              Response(200, "nginx", "", <<"RAY">>),
              Response(200, "cloudflare", "8f2a", <<>>),
              Response(404, "nginx", "", <<>>),
              Response(503, "nginx", "", <<>>)}

\* response.ok
Ok(response) == response.status \in 200..299

\* response.text() on a body that was read before: fetch rejects with a TypeError
SecondText(response) == [ok |-> FALSE, text |-> <<>>, error |-> BodyUnusable]

\* index of the first / last occurrence of token t in h, 0 when there is none
RECURSIVE FirstIndex(_, _, _)
FirstIndex(h, t, i) ==
    IF i > Len(h) THEN 0 ELSE IF h[i] = t THEN i ELSE FirstIndex(h, t, i + 1)
RECURSIVE LastIndex(_, _, _)
LastIndex(h, t, i) ==
    IF i < 1 THEN 0 ELSE IF h[i] = t THEN i ELSE LastIndex(h, t, i - 1)

\* route.ts 289-295: html.match(/<body[^>]*>([\s\S]*)<\/body>/i) and the replaces
ExtractBody(h) ==
    LET open  == FirstIndex(h, "B", 1)
        close == LastIndex(h, "/B", Len(h))
    IN  IF open > 0 /\ close > open
        THEN StripBlocks(SubSeq(h, open + 1, close - 1))
        ELSE h

(***************************************************************************)
(* Server actions: one per await of route.ts 457-544                       *)
(***************************************************************************)
Terminal == {"idle", "rejected", "closed", "errored"}

\* a rejected await: the environment may fail MaxFaults times in a run
Fault == faults < MaxFaults /\ faults' = faults + 1
NoFault == faults' = faults

\* the reader of the page is at most MaxLag events behind, while it is connected
ReaderKeepsUp ==
    \/ request.from # "page"
    \/ streamState # "readable"
    \/ Len(stream) - cursor <= MaxLag

Running(p) == pc = p /\ ReaderKeepsUp

\* a slip of 461: the length test left out
NoUrlsProvidedNoLength(body) == body.urlsKind # "array"

\* 461: !Array.isArray(urls) || urls.length === 0
NoUrlsProvided(body) == body.urlsKind # "array" \/ Len(body.urls) = 0

\* 459-463, 465-467, 546: await request.json() settled
PostHandler ==
    /\ pc = "json"
    /\ IF request.body.parse # "object"
       THEN \* json() rejects, or null is destructured: the catch at 553
            /\ httpStatus' = 500
            /\ pc' = "rejected"
            /\ UNCHANGED <<idx, steps, stream, streamState, ex, started, outcomes>>
       ELSE IF NoUrlsProvided(request.body)
       THEN /\ httpStatus' = 400
            /\ pc' = "rejected"
            /\ UNCHANGED <<idx, steps, stream, streamState, ex, started, outcomes>>
       ELSE /\ httpStatus' = 200
            /\ Advance(TRUE, <<>>, <<>>, <<>>)
    /\ UNCHANGED <<request, openBrowsers, faults, clientVars, pureVars>>

\* 241-260: await import("puppeteer") settled
ImportSettles ==
    /\ Running("import")
    /\ \/ /\ NoFault
          /\ LET r == onStep(idx, Readable, steps, stream, "Puppeteer loaded")
             IN  IF r.threw THEN Fallback(r.steps, r.stream, ex)
                 ELSE Suspend("launch", r, ex)
       \/ /\ Fault
          /\ Fallback(steps, stream, ex)
    /\ UNCHANGED <<request, httpStatus, openBrowsers, clientVars, pureVars>>

\* 260-263: await puppeteer.default.launch(launchOptions) settled
LaunchSettles ==
    /\ Running("launch")
    /\ \/ /\ NoFault
          /\ openBrowsers' = openBrowsers \cup {idx}
          /\ LET r == onStep(idx, Readable, steps, stream, "Browser launched")
             IN  IF r.threw THEN Fallback(r.steps, r.stream, ex)
                 ELSE Suspend("newPage", r, ex)
       \/ /\ Fault
          /\ openBrowsers' = openBrowsers
          /\ Fallback(steps, stream, ex)
    /\ UNCHANGED <<request, httpStatus, clientVars, pureVars>>

\* 263-266: await browser.newPage() settled
NewPageSettles ==
    /\ Running("newPage")
    /\ \/ /\ NoFault
          /\ Suspend("goto", [steps |-> steps, stream |-> stream], ex)
       \/ /\ Fault
          /\ Fallback(steps, stream, ex)
    /\ UNCHANGED <<request, httpStatus, openBrowsers, clientVars, pureVars>>

\* a slip of 268-270: the navigation error is not caught where it is thrown
GotoSettlesAborts ==
    /\ Running("goto")
    /\ \/ /\ NoFault
          /\ LET r == onStep(idx, Readable, steps, stream, "Page loaded")
             IN  Suspend("waitForSelector", r,
                         IF r.threw THEN [ex EXCEPT !.cloudflareBlocked = TRUE] ELSE ex)
       \/ /\ Fault
          /\ Fallback(steps, stream, ex)
    /\ UNCHANGED <<request, httpStatus, openBrowsers, clientVars, pureVars>>

\* 265-273: await page.goto(url, ...) settled; its catch sets cloudflareBlocked
GotoSettles ==
    /\ Running("goto")
    /\ \/ /\ NoFault
          /\ LET r == onStep(idx, Readable, steps, stream, "Page loaded")
             IN  Suspend("waitForSelector", r,
                         IF r.threw THEN [ex EXCEPT !.cloudflareBlocked = TRUE] ELSE ex)
       \/ /\ Fault
          /\ Suspend("waitForSelector", [steps |-> steps, stream |-> stream],
                     [ex EXCEPT !.cloudflareBlocked = TRUE])
    /\ UNCHANGED <<request, httpStatus, openBrowsers, clientVars, pureVars>>

\* 272-280: await page.waitForSelector(...) settled
WaitForSelectorSettles ==
    /\ Running("waitForSelector")
    /\ \E found \in BOOLEAN :
          /\ IF found THEN NoFault ELSE Fault
          /\ LET r1 == onStep(idx, Readable, steps, stream, "Gallery elements detected")
                 \* the catch block runs when the wait or the onStep in the try threw
                 r2 == IF found /\ ~r1.threw THEN r1
                       ELSE onStep(idx, Readable, IF found THEN r1.steps ELSE steps,
                                   IF found THEN r1.stream ELSE stream,
                                   "Waiting for dynamic content...")
                 r3 == onStep(idx, Readable, r2.steps, r2.stream,
                              "Waiting for content to render...")
             IN  IF r2.threw THEN Fallback(r2.steps, r2.stream, ex)
                 ELSE IF r3.threw THEN Fallback(r3.steps, r3.stream, ex)
                 ELSE Suspend("settle", r3, ex)
    /\ UNCHANGED <<request, httpStatus, openBrowsers, clientVars, pureVars>>

\* 280-282: the settle delay is over
SettleDone ==
    /\ Running("settle")
    /\ Suspend("content", [steps |-> steps, stream |-> stream], ex)
    /\ UNCHANGED <<request, httpStatus, openBrowsers, faults, clientVars, pureVars>>

\* 282-286: await page.content() settled
ContentSettles ==
    /\ Running("content")
    /\ \/ \E dom \in Doms :
            /\ NoFault
            /\ LET r == onStep(idx, Readable, steps, stream, "Capturing DOM...")
                   x == [ex EXCEPT !.html = dom]
               IN  IF r.threw THEN Fallback(r.steps, r.stream, x)
                   ELSE Suspend("close", r, [x EXCEPT !.puppeteerUsed = TRUE])
       \/ /\ Fault
          /\ Fallback(steps, stream, ex)
    /\ UNCHANGED <<request, httpStatus, openBrowsers, clientVars, pureVars>>

\* 286-295, 355-435: await browser.close() settled
CloseSettles ==
    /\ Running("close")
    /\ \/ /\ NoFault
          /\ openBrowsers' = openBrowsers \ {idx}
          /\ LET r == onStep(idx, Readable, steps, stream, "Extracting galleries...")
             IN  IF r.threw THEN Fallback(r.steps, r.stream, ex)
                 ELSE Analyze(r.steps, r.stream, [ex EXCEPT !.html = ExtractBody(ex.html)])
       \/ /\ Fault
          /\ openBrowsers' = openBrowsers
          /\ Fallback(steps, stream, ex)
    /\ UNCHANGED <<request, httpStatus, clientVars, pureVars>>

\* 303-313, 349-352: await fetch(url, ...) settled
FetchSettles ==
    /\ Running("fetch")
    /\ \/ \E response \in Responses :
            /\ NoFault
            /\ Suspend("text1", [steps |-> steps, stream |-> stream],
                       [ex EXCEPT !.response = response])
       \/ \E e \in Thrown :
            /\ Fault
            /\ OuterCatch(e, steps, stream)
    /\ UNCHANGED <<request, httpStatus, openBrowsers, clientVars, pureVars>>

\* 313-347: the await response.text() inside the detector call settled
Text1Settles ==
    /\ Running("text1")
    /\ \/ /\ NoFault
          /\ LET response == ex.response
                 blocked  == detectCloudflareBlocking(response.status, response.headers,
                                                      response.body)
                 x        == [ex EXCEPT !.cloudflareBlocked = blocked]
                 r        == onStep(idx, Readable, steps, stream, "Cloudflare blocking detected")
             IN  IF blocked
                 THEN IF r.threw THEN OuterCatch(ControllerClosed, r.steps, r.stream)
                      ELSE ExecReturns(<<BlockedItem(urls[idx])>>, NoError, r.steps, r.stream)
                 ELSE IF ~Ok(response)
                 THEN ExecReturns(<<StatusItem(urls[idx], response.status)>>, NoError,
                                  steps, stream)
                 ELSE Suspend("text2", [steps |-> steps, stream |-> stream], x)
       \/ \E e \in Thrown :
            /\ Fault
            /\ OuterCatch(e, steps, stream)
    /\ UNCHANGED <<request, httpStatus, openBrowsers, clientVars, pureVars>>

\* 347-356: html = await response.text() settled
Text2Settles ==
    /\ Running("text2")
    /\ LET second == SecondText(ex.response)
           r      == onStep(idx, Readable, steps, stream, "Content fetched")
       IN  IF ~second.ok THEN OuterCatch(second.error, steps, stream)
           ELSE IF r.threw THEN OuterCatch(ControllerClosed, r.steps, r.stream)
           ELSE Analyze(r.steps, r.stream, [ex EXCEPT !.html = second.text])
    /\ UNCHANGED <<request, httpStatus, openBrowsers, faults, clientVars, pureVars>>

\* the connection of the response is lost or aborted: the stream is cancelled
Disconnect ==
    /\ streamState = "readable"
    /\ streamState' = "cancelled"
    /\ UNCHANGED <<request, httpStatus, pc, idx, steps, stream, ex, openBrowsers,
                   started, outcomes, faults, clientVars, pureVars>>

(***************************************************************************)
(* The client: startScan of src/app/page.tsx                               *)
(***************************************************************************)
Pending(u) == [url |-> u, status |-> "pending", steps |-> <<>>, hasResult |-> FALSE,
               items |-> <<>>]

NoResults == [set |-> FALSE, total_pages |-> 0, broken_count |-> 0, working_count |-> 0,
              no_gallery_count |-> 0, cloudflare_blocked_count |-> 0, items |-> <<>>]

\* page.tsx 105-111: the updater given to setLiveResults for one stream record
ApplyEvent(prev, data) ==
    [i \in 1..Len(prev) |->
        IF prev[i].url = data.url
        THEN [prev[i] EXCEPT !.status = data.status, !.steps = data.steps,
                             !.hasResult = data.hasResult, !.items = data.items]
        ELSE prev[i]]

\* page.tsx 124-129: the items of every entry that has a result
RECURSIVE AllItems(_)
AllItems(live) ==
    IF live = <<>> THEN <<>>
    ELSE (IF Head(live).hasResult THEN Head(live).items ELSE <<>>) \o AllItems(Tail(live))

\* index in reps of the representative of page_url u, 0 when there is none
RECURSIVE RepIndex(_, _, _)
RepIndex(reps, u, i) ==
    IF i > Len(reps) THEN 0
    ELSE IF reps[i].page_url = u THEN i ELSE RepIndex(reps, u, i + 1)

\* a slip of 133-141: every item replaces the representative of its page_url
RECURSIVE CollapseLastWins(_, _)
CollapseLastWins(items, reps) ==
    IF items = <<>> THEN reps
    ELSE LET item == Head(items)
             k    == RepIndex(reps, item.page_url, 1)
         IN  IF k = 0 THEN CollapseLastWins(Tail(items), Append(reps, item))
             ELSE CollapseLastWins(Tail(items), [reps EXCEPT ![k] = item])

\* page.tsx 131-144: urlStatusMap, in insertion order
RECURSIVE Collapse(_, _)
Collapse(items, reps) ==
    IF items = <<>> THEN reps
    ELSE LET item == Head(items)
             k    == RepIndex(reps, item.page_url, 1)
         IN  IF k = 0 THEN Collapse(Tail(items), Append(reps, item))
             ELSE IF item.status = "broken"
             THEN Collapse(Tail(items),
                           [reps EXCEPT ![k].status = "broken",
                                        ![k].cloudflare_blocked = item.cloudflare_blocked \/ @])
             ELSE Collapse(Tail(items), reps)

\* page.tsx 145-148: uniqueItems.filter((item) => item.status === status).length
CountStatus(s, status) == Cardinality({i \in 1..Len(s) : s[i].status = status})

\* page.tsx 144-157
ScanResult(live, n) ==
    LET uniqueItems == Collapse(AllItems(live), <<>>)
    IN  [set |-> TRUE, total_pages |-> n,
         broken_count |-> CountStatus(uniqueItems, "broken"),
         working_count |-> CountStatus(uniqueItems, "working"),
         no_gallery_count |-> CountStatus(uniqueItems, "no curated gallery"),
         cloudflare_blocked_count |->
             Cardinality({i \in 1..Len(uniqueItems) : uniqueItems[i].cloudflare_blocked}),
         items |-> uniqueItems]

\* a new POST reaches the server: the state of the request handler
NewRequest(from, body) ==
    /\ pc \in Terminal
    /\ request' = [from |-> from, body |-> body]
    /\ httpStatus' = 0
    /\ pc' = "json"
    /\ idx' = 0
    /\ steps' = <<>>
    /\ stream' = <<>>
    /\ streamState' = "none"
    /\ ex' = ExInit
    /\ openBrowsers' = {}
    /\ started' = {}
    /\ outcomes' = <<>>
    /\ UNCHANGED faults

\* page.tsx 70-81: startScan(urls) up to its await fetch("/api/scan"); the input
\* section that calls it is rendered while !isScanning && !results.  The list
\* is one of lists, and the page submits at most budget URLs in a run
StartScanWithin(lists, budget) ==
    /\ ~isScanning
    /\ ~results.set
    /\ \E list \in lists :
          /\ submitted + Len(list) <= budget
          /\ submitted' = submitted + Len(list)
          /\ NewRequest("page", Body("object", "array", list))
          /\ liveResults' = [i \in 1..Len(list) |-> Pending(list[i])]
    /\ isScanning' = TRUE
    /\ results' = NoResults
    /\ closureLive' = liveResults
    /\ cursor' = 0
    /\ UNCHANGED pureVars

StartScan == StartScanWithin(UrlLists, MaxUrls)

\* some other HTTP client posts a body the page never sends; every request is
\* handled on its own, so these come before the first scan of the page
OtherPost ==
    /\ ~isScanning
    /\ submitted = 0
    /\ \E body \in OtherBodies : NewRequest("other", body)
    /\ UNCHANGED <<liveResults, closureLive, results, isScanning, cursor, submitted,
                   pureVars>>

\* page.tsx 89-121: reader.read() delivered one record of the stream
ReadEvent ==
    /\ isScanning
    /\ request.from = "page"
    /\ httpStatus = 200
    /\ streamState # "cancelled"
    /\ cursor < Len(stream)
    /\ cursor' = cursor + 1
    /\ liveResults' = ApplyEvent(liveResults, stream[cursor + 1])
    /\ UNCHANGED <<serverVars, closureLive, results, isScanning, submitted, pureVars>>

\* page.tsx 91, 123-158, 162-164: reader.read() reported done
ReadDone ==
    /\ isScanning
    /\ request.from = "page"
    /\ httpStatus = 200
    /\ streamState = "closed"
    /\ cursor = Len(stream)
    /\ results' = ScanResult(closureLive, Len(urls))
    /\ isScanning' = FALSE
    /\ UNCHANGED <<serverVars, liveResults, closureLive, cursor, submitted, pureVars>>

\* page.tsx 83, 159-164: the response is not ok, or reading it failed; the
\* catch is taken to run once the abandoned start() has stopped
ScanFails ==
    /\ isScanning
    /\ request.from = "page"
    /\ httpStatus \in {400, 500} \/ streamState = "cancelled"
    /\ pc \in Terminal
    /\ isScanning' = FALSE
    /\ UNCHANGED <<serverVars, liveResults, closureLive, results, cursor, submitted, pureVars>>

\* page.tsx 379-383: the Scan Again button
ScanAgain ==
    /\ results.set
    /\ results' = NoResults
    /\ UNCHANGED <<serverVars, liveResults, closureLive, isScanning, cursor, submitted, pureVars>>

(***************************************************************************)
(* The system                                                              *)
(***************************************************************************)
Init ==
    /\ request = NoRequest
    /\ httpStatus = 0
    /\ pc = "idle"
    /\ idx = 0
    /\ steps = <<>>
    /\ stream = <<>>
    /\ streamState = "none"
    /\ ex = ExInit
    /\ openBrowsers = {}
    /\ started = {}
    /\ outcomes = <<>>
    /\ faults = 0
    /\ liveResults = <<>>
    /\ closureLive = <<>>
    /\ results = NoResults
    /\ isScanning = FALSE
    /\ cursor = 0
    /\ submitted = 0
    /\ statusIn = <<>>
    /\ statusOut = ""
    /\ classPage = NoPage
    /\ classItems = <<>>
    /\ classWatched = NoPage
    /\ classFirst = NotClassified
    /\ collapseIn = <<>>
    /\ collapseOut = <<>>
    /\ detectIn = NoResponse
    /\ detectOut = <<>>
    /\ runs = NoRuns

Next ==
    \/ StartScan
    \/ OtherPost
    \/ PostHandler
    \/ ImportSettles
    \/ LaunchSettles
    \/ NewPageSettles
    \/ GotoSettles
    \/ WaitForSelectorSettles
    \/ SettleDone
    \/ ContentSettles
    \/ CloseSettles
    \/ FetchSettles
    \/ Text1Settles
    \/ Text2Settles
    \/ Disconnect
    \/ ReadEvent
    \/ ReadDone
    \/ ScanFails
    \/ ScanAgain

Spec == Init /\ [][Next]_vars

(***************************************************************************)
(* The status resolution on every item list (route.ts 490-511)             *)
(***************************************************************************)
Statuses == {"broken", "working", "no curated gallery"}

InitStatus ==
    /\ request = NoRequest
    /\ httpStatus = 0
    /\ pc = "idle"
    /\ idx = 0
    /\ steps = <<>>
    /\ stream = <<>>
    /\ streamState = "none"
    /\ ex = ExInit
    /\ openBrowsers = {}
    /\ started = {}
    /\ outcomes = <<>>
    /\ faults = 0
    /\ liveResults = <<>>
    /\ closureLive = <<>>
    /\ results = NoResults
    /\ isScanning = FALSE
    /\ cursor = 0
    /\ submitted = 0
    /\ statusIn \in SeqsUpTo(Statuses, MaxItems)
    /\ statusOut = ""
    /\ classPage = NoPage
    /\ classItems = <<>>
    /\ classWatched = NoPage
    /\ classFirst = NotClassified
    /\ collapseIn = <<>>
    /\ collapseOut = <<>>
    /\ detectIn = NoResponse
    /\ detectOut = <<>>
    /\ runs = NoRuns

Resolve ==
    /\ statusOut = ""
    /\ statusOut' = urlStatus(statusIn)
    /\ UNCHANGED <<serverVars, clientVars, statusIn, classVars, collapseVars,
                   detectVars, runs>>

NextStatus == Resolve

SpecStatus == InitStatus /\ [][NextStatus]_vars

(***************************************************************************)
(* The classification on every page (route.ts 355-435)                     *)
(***************************************************************************)
\* the idle state of the server and the client, as in Init
Idle ==
    /\ request = NoRequest
    /\ httpStatus = 0
    /\ pc = "idle"
    /\ idx = 0
    /\ steps = <<>>
    /\ stream = <<>>
    /\ streamState = "none"
    /\ ex = ExInit
    /\ openBrowsers = {}
    /\ started = {}
    /\ outcomes = <<>>
    /\ faults = 0
    /\ liveResults = <<>>
    /\ closureLive = <<>>
    /\ results = NoResults
    /\ isScanning = FALSE
    /\ cursor = 0
    /\ submitted = 0
    /\ statusIn = <<>>
    /\ statusOut = ""

Tokens == {"C", "E", "V", "S", "SD"}

\* n characters of text or markup without a tag the classification looks for
Pad(n) == [i \in 1..n |-> "I"]

\* pages beyond the short ones: the modifier before the token, a container
\* longer than the image_url cap, three containers with a video in the middle,
\* nested containers, a container that is never closed after a closed one
ExtraHtmls == {<<"C", "DS", "E">>,
               <<"C">> \o Pad(ImageUrlCap) \o <<"SD", "E">>,
               <<"C", "S", "E", "C", "V", "E", "C", "SD", "E">>,
               <<"C", "C", "S", "E", "E">>,
               <<"D", "C", "E", "E", "C", "SD">>}

Htmls == SeqsUpTo(Tokens, MaxHtml) \cup ExtraHtmls

\* the url argument of the Executor in these checks
ScannedUrl == "https://a"

\* a slip of 355: the array outlives the call
KeptArray(previous) == previous

\* route.ts 355: const brokenItems = [], a new array in every call
NewArray(previous) == <<>>

InitClassify ==
    /\ Idle
    /\ classPage \in {[html |-> h, pu |-> b, classified |-> FALSE] :
                          h \in Htmls, b \in BOOLEAN}
    /\ classItems = <<>>
    /\ classWatched = NoPage
    /\ classFirst = NotClassified
    /\ collapseIn = <<>>
    /\ collapseOut = <<>>
    /\ detectIn = NoResponse
    /\ detectOut = <<>>
    /\ runs = NoRuns

\* route.ts 355-435 runs on classPage
ClassifyPage ==
    /\ ~classPage.classified
    /\ classPage' = [classPage EXCEPT !.classified = TRUE]
    /\ classItems' = NewArray(classItems) \o classify(ScannedUrl, classPage.html, classPage.pu)
    /\ UNCHANGED <<serverVars, clientVars, statusIn, statusOut, classWatched, classFirst,
                   collapseVars, detectVars, runs>>

NextClassify == ClassifyPage

SpecClassify == InitClassify /\ [][NextClassify]_vars

(***************************************************************************)
(* Classifications one after the other, in one batch or in several         *)
(***************************************************************************)
SomeHtmls == {<<>>,
              <<"C", "SD", "E">>,
              <<"C", "S", "E">>,
              <<"C", "V", "E">>,
              <<"C", "E", "C", "V", "E", "C", "SD", "E">>,
              <<"C", "S">>}

SomePages == {[html |-> h, pu |-> b, classified |-> TRUE] : h \in SomeHtmls, b \in BOOLEAN}

InitReclassify ==
    /\ Idle
    /\ classPage = NoPage
    /\ classItems = <<>>
    /\ classWatched \in SomePages
    /\ classFirst = NotClassified
    /\ collapseIn = <<>>
    /\ collapseOut = <<>>
    /\ detectIn = NoResponse
    /\ detectOut = <<>>
    /\ runs = NoRuns

\* route.ts 355-435 runs on some page; the first result for classWatched is kept
Reclassify ==
    \E p \in SomePages :
        LET r == NewArray(classItems) \o classify(ScannedUrl, p.html, p.pu)
        IN  /\ classPage' = p
            /\ classItems' = r
            /\ classFirst' = IF ~classFirst.known
                              THEN IF p = classWatched
                                   THEN [NotClassified EXCEPT !.known = TRUE, !.items = r]
                                   ELSE classFirst
                              ELSE IF p = classWatched
                                   THEN [classFirst EXCEPT !.again = classFirst.between]
                                   ELSE [classFirst EXCEPT !.between = TRUE]
            /\ UNCHANGED <<serverVars, clientVars, statusIn, statusOut, classWatched,
                           collapseVars, detectVars, runs>>

NextReclassify == Reclassify

SpecReclassify == InitReclassify /\ [][NextReclassify]_vars

(***************************************************************************)
(* The collapse by page_url on every short item list (page.tsx 131-144)    *)
(***************************************************************************)
\* an item as the collapse reads it: page_url, status and cloudflare_blocked
CollapseItem(u, status, cf) ==
    Item(u, <<"I">>, "", "", status, <<>>, FALSE, "", cf)

CollapseItems == {CollapseItem(u, st, cf) : u \in Urls, st \in Statuses, cf \in BOOLEAN}

\* the non-empty allItems lists of up to MaxCollapse items
CollapseInputs == SeqsUpTo(CollapseItems, MaxCollapse) \ {<<>>}

InitCollapse ==
    /\ Idle
    /\ classPage = NoPage
    /\ classItems = <<>>
    /\ classWatched = NoPage
    /\ classFirst = NotClassified
    /\ collapseIn \in CollapseInputs
    /\ collapseOut = <<>>
    /\ detectIn = NoResponse
    /\ detectOut = <<>>
    /\ runs = NoRuns

\* page.tsx 131-144 runs on collapseIn
CollapseAll ==
    /\ collapseOut = <<>>
    /\ collapseOut' = Collapse(collapseIn, <<>>)
    /\ UNCHANGED <<serverVars, clientVars, statusIn, statusOut, classVars, collapseIn,
                   detectVars, runs>>

NextCollapse == CollapseAll

SpecCollapse == InitCollapse /\ [][NextCollapse]_vars

(***************************************************************************)
(* detectCloudflareBlocking on every small input (src/lib/utils.ts 8-27)   *)
(***************************************************************************)
DetectStatuses == {200, 403, 404, 429, 503}

\* values of the server header; "" stands for a response without it
ServerValues == {"", "nginx", "cloudflare", "cloudflare-nginx", "Cloudflare", "CLOUDFLARE"}

\* values of the cf-ray header; "" stands for a response without it
CfRayValues == {"", "8f2a"}

DetectBodies == {<<>>, <<"I">>, <<"I", "RAY", "I">>, <<"RL">>, <<"CB">>, <<"CC">>, <<"RAY">>}

\* the server values above with their letters in lower case
LowerCase(v) == IF v \in {"Cloudflare", "CLOUDFLARE"} THEN "cloudflare" ELSE v

InitDetect ==
    /\ Idle
    /\ classPage = NoPage
    /\ classItems = <<>>
    /\ classWatched = NoPage
    /\ classFirst = NotClassified
    /\ collapseIn = <<>>
    /\ collapseOut = <<>>
    /\ detectIn \in {Response(st, sv, ray, b) : st \in DetectStatuses, sv \in ServerValues,
                                               ray \in CfRayValues, b \in DetectBodies}
    /\ detectOut = <<>>
    /\ runs = NoRuns

\* detectCloudflareBlocking is called on detectIn, a first and a second time
Detect ==
    /\ Len(detectOut) < 2
    /\ detectOut' = Append(detectOut,
                           detectCloudflareBlocking(detectIn.status, detectIn.headers,
                                                    detectIn.body))
    /\ UNCHANGED <<serverVars, clientVars, statusIn, statusOut, classVars, collapseVars,
                   detectIn, runs>>

NextDetect == Detect

SpecDetect == InitDetect /\ [][NextDetect]_vars

(***************************************************************************)
(* A batch whose connection is never lost, with every await settling       *)
(***************************************************************************)
\* one stretch of the server's code runs: the await it is suspended at settled
ServerStep ==
    \/ PostHandler
    \/ ImportSettles
    \/ LaunchSettles
    \/ NewPageSettles
    \/ GotoSettles
    \/ WaitForSelectorSettles
    \/ SettleDone
    \/ ContentSettles
    \/ CloseSettles
    \/ FetchSettles
    \/ Text1Settles
    \/ Text2Settles

NextConnected ==
    \/ StartScan
    \/ ServerStep
    \/ ReadEvent
    \/ ReadDone
    \/ ScanFails

\* every awaited operation settles (bounded timeouts), and the reader of the
\* page keeps reading while it is connected
SpecConnected ==
    Init /\ [][NextConnected]_vars /\ WF_vars(ServerStep) /\ WF_vars(ReadEvent)

(***************************************************************************)
(* A session in which the user never presses Scan Again: a scan that was   *)
(* cut off can be followed by another one                                  *)
(***************************************************************************)
\* the URLs of the entries that hold no result
Unfinished == {liveResults[j].url : j \in {k \in 1..Len(liveResults) : ~liveResults[k].hasResult}}

\* the first scan is of any list; a later one resumes: its URLs are among the
\* unfinished ones, and it may take the run one URL beyond MaxUrls
StartScanOrResume ==
    StartScanWithin(IF liveResults = <<>> THEN UrlLists
                    ELSE {l \in UrlLists : l # <<>> /\ Range(l) \subseteq Unfinished},
                    MaxUrls + 1)

NextNoReset ==
    \/ StartScanOrResume
    \/ ServerStep
    \/ Disconnect
    \/ ReadEvent
    \/ ReadDone
    \/ ScanFails

SpecNoReset == Init /\ [][NextNoReset]_vars

(***************************************************************************)
(* A client other than the page posts a list with an entry that is not an  *)
(* http(s) URL (route.ts 457-488 has no test of the entries)               *)
(***************************************************************************)
\* entries that begin with neither "http://" nor "https://"
Malformed == {"about:blank", "www.ikea.com/a"}

\* url.startsWith("http://") || url.startsWith("https://"), on the entries used
BeginsWithHttp(u) == u \in Urls

DirectLists == {<<m>> : m \in Malformed}
                   \cup {<<"https://a", m>> : m \in Malformed}
                   \cup {<<m, "https://a">> : m \in Malformed}

\* the POST of such a list reaches the server
DirectPost ==
    /\ request.from = "none"
    /\ \E list \in DirectLists : NewRequest("other", Body("object", "array", list))
    /\ UNCHANGED <<clientVars, pureVars>>

NextDirect ==
    \/ DirectPost
    \/ ServerStep
    \/ Disconnect

SpecDirect == Init /\ [][NextDirect]_vars

(***************************************************************************)
(* Two POST requests handled at the same time (route.ts 457-544): each     *)
(* invocation of POST has its own urls, loop variable, steps array and     *)
(* stream; the Executor is taken by the labels it reports                  *)
(***************************************************************************)
RunLists == SeqsUpTo(Urls, MaxUrls) \ {<<>>}

\* runs of the Executor: the labels it gives to onStep, in order, and the
\* status of the items it returns
RunPaths ==
    {[labels |-> <<"Initializing...", "Puppeteer failed, using fetch...",
                   "Cloudflare blocking detected">>,
      status |-> "broken"],
     [labels |-> <<"Initializing...", "Puppeteer failed, using fetch...",
                   "Error: fetch failed">>,
      status |-> "broken"],
     [labels |-> <<"Initializing...", "Puppeteer loaded", "Browser launched", "Page loaded",
                   "Gallery elements detected", "Waiting for content to render...",
                   "Capturing DOM...", "Extracting galleries...", "Analyzing galleries...",
                   "No curated galleries found">>,
      status |-> "no curated gallery"]}

\* the labels the Executor can report after it reported done
NextLabels(done) ==
    {p.labels[Len(done) + 1] : p \in {q \in RunPaths : /\ Len(q.labels) > Len(done)
                                                       /\ SubSeq(q.labels, 1, Len(done)) = done}}

\* a slip of 469: steps is one array at module level, shared by all requests
StepsOwnerShared(r) == 1

\* 469: const steps is declared inside the loop of the invocation that uses it
StepsOwner(r) == r

\* 475-484, 516-525: the record enqueued by run for its current URL
RunEvent(run, status, st, current, hasResult) ==
    [pos |-> run.idx, url |-> run.urls[run.idx], status |-> status, steps |-> st,
     currentStep |-> current, hasResult |-> hasResult]

\* 459-471: request r arrives with a list and its loop reaches the first URL
RunPost(r) ==
    /\ runs[r].pc = "none"
    /\ \E list \in RunLists :
          runs' = [runs EXCEPT ![r] = [urls |-> list, pc |-> "exec", idx |-> 1,
                                       steps |-> <<>>, stream |-> <<>>,
                                       reported |-> <<<<>>>>]]
    /\ UNCHANGED <<serverVars, clientVars, statusIn, statusOut, classVars, collapseVars,
                   detectVars>>

\* 473-485: the Executor of request r calls onStep(label)
RunOnStep(r) ==
    /\ runs[r].pc = "exec"
    /\ \E label \in NextLabels(runs[r].reported[runs[r].idx]) :
          LET o      == StepsOwner(r)
              pushed == Append(runs[o].steps, label)
              ev     == RunEvent(runs[r], "processing", pushed, label, FALSE)
          IN  runs' = [runs EXCEPT ![o].steps = pushed,
                                   ![r].stream = Append(@, ev),
                                   ![r].reported[runs[r].idx] = Append(@, label)]
    /\ UNCHANGED <<serverVars, clientVars, statusIn, statusOut, classVars, collapseVars,
                   detectVars>>

\* 488-526, 468-469, 542: the Executor of request r returned; the final record
\* is enqueued and the loop goes to the next URL or closes the stream
RunExecEnds(r) ==
    /\ runs[r].pc = "exec"
    /\ \E p \in RunPaths :
          /\ p.labels = runs[r].reported[runs[r].idx]
          /\ LET o  == StepsOwner(r)
                  ev == RunEvent(runs[r], p.status, runs[o].steps, "Complete", TRUE)
              IN  IF runs[r].idx < Len(runs[r].urls)
                  THEN runs' = [runs EXCEPT ![o].steps = <<>>,
                                            ![r].stream = Append(@, ev),
                                            ![r].idx = @ + 1,
                                            ![r].reported = Append(@, <<>>)]
                  ELSE runs' = [runs EXCEPT ![r].stream = Append(@, ev),
                                            ![r].pc = "closed"]
    /\ UNCHANGED <<serverVars, clientVars, statusIn, statusOut, classVars, collapseVars,
                   detectVars>>

NextRuns == \E r \in RunIds : RunPost(r) \/ RunOnStep(r) \/ RunExecEnds(r)

SpecRuns == Init /\ [][NextRuns]_vars

(***************************************************************************)
(* Claims                                                                  *)
(***************************************************************************)
IsFinal(ev) == ev.hasResult

Finals(str) == {k \in 1..Len(str) : IsFinal(str[k])}

FinalsOf(str, i) == {k \in Finals(str) : str[k].pos = i}

\* the outer catch of the Executor handled the thrown value of this outcome
Caught(o) == o.caught # NoError

\* C1: while the progress callback cannot fail (the stream of the batch was
\* not cancelled), every Executor run that ended returned to the coordinator
\* (it did not raise), and the item list it returned is not empty.
C1_ExecutorReturnsNonEmpty ==
    streamState # "cancelled" =>
        \A i \in 1..Len(outcomes) :
            outcomes[i].kind = "returned" /\ outcomes[i].items # <<>>

\* C2: when an Error with message m reached the outer boundary of the
\* Executor, its result is exactly the one synthetic item: page_url the URL,
\* status "broken", reason "Scan failed: m", debug_info "Fatal error: m",
\* puppeteer_used and cloudflare_blocked false.
C2_FatalErrorGivesOneBrokenItem ==
    \A i \in 1..Len(outcomes) :
        (Caught(outcomes[i]) /\ outcomes[i].caught.isError) =>
            /\ outcomes[i].kind = "returned"
            /\ Len(outcomes[i].items) = 1
            /\ LET it == outcomes[i].items[1]
                   m  == outcomes[i].caught.message
               IN  /\ it.page_url = urls[i]
                   /\ it.status = "broken"
                   /\ it.reason = "Scan failed: " \o m
                   /\ it.debug_info = "Fatal error: " \o m
                   /\ ~it.puppeteer_used
                   /\ ~it.cloudflare_blocked

\* C3: a URL whose fetch failed on both paths does not abort the batch: unless
\* the stream was cancelled, its final record is emitted with exactly one item,
\* which is broken with a reason "Scan failed: ...", the loop goes on, and a
\* closed stream holds a final record for every URL of the batch.
C3_FailedUrlDoesNotAbortBatch ==
    streamState # "cancelled" =>
        /\ pc # "errored"
        /\ \A i \in 1..Len(outcomes) :
              Caught(outcomes[i]) =>
                  /\ Cardinality(FinalsOf(stream, i)) = 1
                  /\ \A k \in FinalsOf(stream, i) :
                        /\ Len(stream[k].items) = 1
                        /\ stream[k].items[1].status = "broken"
                        /\ stream[k].items[1].reason
                             = "Scan failed: " \o ErrorMessage(outcomes[i].caught)
                        /\ stream[k].status = "broken"
        /\ streamState = "closed" =>
              \A i \in 1..Len(urls) : Cardinality(FinalsOf(stream, i)) = 1

\* the fetch of some URL failed on both paths, another URL was scanned after
\* it, and the batch ended
C3_Witness ==
    /\ streamState = "closed"
    /\ Len(urls) = 2
    /\ Caught(outcomes[1])
    /\ outcomes[1].caught \in Thrown
    /\ ~Caught(outcomes[2])

\* C4: the records of a batch come one URL at a time in list order: a record
\* of position p is emitted only after the final record of every earlier
\* position, and no record of a position follows its final record.
C4_SequentialEmission ==
    \A l \in 1..Len(stream) :
        /\ \A p \in 1..(stream[l].pos - 1) :
              \E k \in 1..(l - 1) : stream[k].pos = p /\ IsFinal(stream[k])
        /\ \A k \in 1..(l - 1) : IsFinal(stream[k]) => stream[k].pos # stream[l].pos

\* records of the second URL follow the final record of the first
C4_Witness ==
    \E k, l \in 1..Len(stream) :
        k < l /\ stream[k].pos = 1 /\ IsFinal(stream[k]) /\ stream[l].pos = 2

\* C5: every record that is not final has status "processing" and no result;
\* a final record has a status among broken, working, no curated gallery and
\* carries the item list the Executor returned for that URL; a URL has at most
\* one final record, it is its last record, and unless the stream was
\* cancelled every URL whose Executor run ended has one.
C5_OneFinalRecordPerUrl ==
    /\ \A k \in 1..Len(stream) :
          IF IsFinal(stream[k])
          THEN /\ stream[k].status \in Statuses
               /\ stream[k].pos \in 1..Len(outcomes)
               /\ outcomes[stream[k].pos].kind = "returned"
               /\ stream[k].items = outcomes[stream[k].pos].items
               /\ \A l \in (k + 1)..Len(stream) : stream[l].pos # stream[k].pos
          ELSE /\ stream[k].status = "processing"
               /\ stream[k].items = <<>>
    /\ \A i \in 1..Len(urls) : Cardinality(FinalsOf(stream, i)) <= 1
    /\ streamState # "cancelled" =>
          \A i \in 1..Len(outcomes) : Cardinality(FinalsOf(stream, i)) = 1

\* a URL has intermediate records and then its final record
C5_Witness ==
    \E k, l \in 1..Len(stream) :
        k < l /\ stream[k].pos = stream[l].pos /\ ~IsFinal(stream[k]) /\ IsFinal(stream[l])

\* C6: for every list of item statuses, the resolved status is "broken" if
\* some item is broken; otherwise "no curated gallery" if some item is no
\* curated gallery and none is working; otherwise "working".
C6_StatusResolution ==
    statusOut # "" =>
        statusOut = (IF "broken" \in Range(statusIn) THEN "broken"
                     ELSE IF "no curated gallery" \in Range(statusIn)
                             /\ "working" \notin Range(statusIn)
                     THEN "no curated gallery"
                     ELSE "working")

\* the resolution ran on a list that holds both a working and a no curated
\* gallery item and no broken one
C6_Witness ==
    /\ statusOut # ""
    /\ Range(statusIn) = {"working", "no curated gallery"}

\* C7: without cancellation and with every await settling, a batch that was
\* accepted always completes: its stream is eventually closed, and a closed
\* stream ends with the final record of the last URL and holds exactly one
\* final record per URL of the batch, also when every scan failed.
C7_BatchCompletes ==
    /\ [](streamState = "closed" =>
            /\ Len(stream) > 0
            /\ IsFinal(stream[Len(stream)])
            /\ stream[Len(stream)].pos = Len(urls)
            /\ Cardinality(Finals(stream)) = Len(urls)
            /\ \A i \in 1..Len(urls) : Cardinality(FinalsOf(stream, i)) = 1)
    /\ (httpStatus = 200) ~> (streamState = "closed")

\* a batch of two URLs is closed and the scan of each of them failed
C7_Witness ==
    /\ streamState = "closed"
    /\ Len(urls) = 2
    /\ \A i \in 1..2 : Caught(outcomes[i])

C9_StartScanKeepsCompleted ==
    [][(~isScanning /\ isScanning' /\ liveResults' # <<>>) =>
          \A j \in 1..Len(liveResults) :
              (/\ liveResults[j].hasResult
               /\ \A k \in 1..Len(liveResults') : liveResults'[k].url # liveResults[j].url)
              => \E k \in 1..Len(liveResults') : liveResults'[k] = liveResults[j]]_vars

\* C10: a POST whose JSON body has no urls field, a urls field that is not an
\* array, or an empty urls array is answered with status 400, and nothing was
\* processed for it: no Executor run, no browser, no fetch, no stream record.
C10_NoUrlsRejected ==
    (/\ pc # "json"
     /\ request.body.parse = "object"
     /\ request.body.urlsKind # "array" \/ request.body.urls = <<>>)
    => /\ httpStatus = 400
       /\ pc = "rejected"
       /\ started = {}
       /\ outcomes = <<>>
       /\ openBrowsers = {}
       /\ stream = <<>>
       /\ streamState = "none"

\* a POST with an empty urls array was answered
C10_Witness ==
    /\ pc = "rejected"
    /\ request.body.parse = "object"
    /\ request.body.urlsKind = "array"
    /\ request.body.urls = <<>>

\* the matches of the container pattern whose content embeds no <video>
NonVideo(h) == SelectSeq(containers(h), LAMBDA m : ~hasVideo(m.content))

\* image is the first ImageUrlCap characters of markup
IsCut(image, markup) ==
    /\ Len(image) = (IF Len(markup) < ImageUrlCap THEN Len(markup) ELSE ImageUrlCap)
    /\ \A j \in 1..Len(image) : image[j] = markup[j]

\* C11: for every page in which the container pattern has no match, the
\* classification returns exactly one item, with status "no curated
\* gallery", empty image_url and the reason "No curated gallery components
\* found on this page".
C11_NoContainerOneItem ==
    (classPage.classified /\ Len(containers(classPage.html)) = 0) =>
        /\ Len(classItems) = 1
        /\ classItems[1].status = "no curated gallery"
        /\ classItems[1].image_url = <<>>
        /\ classItems[1].reason = "No curated gallery components found on this page"

\* a page with a container tag that is never closed was classified
C11_Witness ==
    /\ classPage.classified
    /\ "C" \in Range(classPage.html)
    /\ Len(containers(classPage.html)) = 0
    /\ Len(classItems) = 1

\* C12: for every page with at least one container match, the classification
\* returns at most as many items as there are containers, and every item is
\* working or broken.
C12_AtMostOneItemPerContainer ==
    (classPage.classified /\ Len(containers(classPage.html)) >= 1) =>
        /\ Len(classItems) <= Len(containers(classPage.html))
        /\ \A k \in 1..Len(classItems) : classItems[k].status \in {"working", "broken"}

\* a page with two containers, one of them with a video, was classified
C12_Witness ==
    /\ classPage.classified
    /\ Len(containers(classPage.html)) = 2
    /\ Len(classItems) = 1

\* C13: the item of a container without <video> is decided by the content of
\* that container: the token followed by the modifier gives working, "Shoppable
\* gallery is working properly"; no token gives broken, "Container has image
\* but missing pub__shoppable-image component"; the token without the modifier
\* after it gives broken, "Shoppable gallery missing --visible-dots class";
\* image_url is the first 500 characters of the container markup.
C13_ItemDecidedByContent ==
    (classPage.classified /\ Len(containers(classPage.html)) >= 1
        /\ Len(classItems) = Len(NonVideo(classPage.html))) =>
        \A k \in 1..Len(classItems) :
            LET m  == NonVideo(classPage.html)[k]
                it == classItems[k]
            IN  /\ IsCut(it.image_url, m.div)
                /\ IF "SD" \in Range(m.content)
                   THEN it.status = "working"
                        /\ it.reason = "Shoppable gallery is working properly"
                   ELSE IF Range(m.content) \cap {"S", "DS"} = {}
                   THEN it.status = "broken"
                        /\ it.reason = "Container has image but missing pub__shoppable-image component"
                   ELSE it.status = "broken"
                        /\ it.reason = "Shoppable gallery missing --visible-dots class"

\* a working container whose markup is longer than the cap was classified
C13_Witness ==
    /\ classPage.classified
    /\ Len(classItems) = 1
    /\ classItems[1].status = "working"
    /\ Len(containers(classPage.html)) = 1
    /\ Len(containers(classPage.html)[1].div) > ImageUrlCap
    /\ Len(classItems[1].image_url) = ImageUrlCap

\* C14: on a page with containers, the classification returns one item for
\* each container without <video> and none for a container with one, and the
\* items are in the document order of their containers.
C14_OneItemPerNonVideoInOrder ==
    (classPage.classified /\ Len(containers(classPage.html)) >= 1) =>
        /\ Len(classItems) = Len(NonVideo(classPage.html))
        /\ \A k \in 1..Len(classItems) :
              IsCut(classItems[k].image_url, NonVideo(classPage.html)[k].div)

\* three containers, the second with a video: two different items
C14_Witness ==
    /\ classPage.classified
    /\ Len(containers(classPage.html)) = 3
    /\ Len(classItems) = 2
    /\ classItems[1].image_url # classItems[2].image_url

RunEnds == Len(outcomes') = Len(outcomes) + 1

\* the outcome of the run that ends in this step
Ended == outcomes'[Len(outcomes')]

\* the steps of the final record that this step emits for the current URL
FinalSteps == {stream'[k].steps : k \in FinalsOf(stream', idx)}

\* the detector of route.ts 313 on the response of the fallback fetch
Blocked(response) ==
    detectCloudflareBlocking(response.status, response.headers, response.body)

\* C16: on the fallback path, when the response is not blocked and its status
\* is in the success range, the Executor returns what the classification
\* gives for the response body with puppeteer_used = false, and the step
\* "Content fetched" is reported.
C16_FallbackBodyClassified ==
    [][(pc = "text2" /\ Readable /\ RunEnds) =>
          /\ Ended.kind = "returned"
          /\ Ended.items = classify(urls[idx], ex.response.body, FALSE)
          /\ \A st \in FinalSteps : "Content fetched" \in Range(st)]_vars

\* C17: on the fallback path, when the detector returns true for the
\* response, the Executor returns one item, broken, flagged cloudflare_blocked
\* and with the reason "Cloudflare is blocking requests" also when the status
\* is outside the success range; the last step reported is "Cloudflare
\* blocking detected" and "Analyzing galleries..." is not reported.
C17_BlockedShortCircuits ==
    [][(pc = "text1" /\ Readable /\ RunEnds /\ faults' = faults
          /\ Blocked(ex.response)) =>
          /\ Ended.kind = "returned"
          /\ Len(Ended.items) = 1
          /\ Ended.items[1].status = "broken"
          /\ Ended.items[1].cloudflare_blocked
          /\ Ended.items[1].reason = "Cloudflare is blocking requests"
          /\ FinalSteps # {}
          /\ \A st \in FinalSteps :
                /\ st[Len(st)] = "Cloudflare blocking detected"
                /\ "Analyzing galleries..." \notin Range(st)]_vars

\* the final record of a URL whose fallback response was blocked
C17_Witness ==
    \E k \in Finals(stream) :
        /\ Len(stream[k].items) = 1
        /\ stream[k].items[1].cloudflare_blocked
        /\ stream[k].steps[Len(stream[k].steps)] = "Cloudflare blocking detected"

\* C18: on the fallback path, when the response is not blocked and its status
\* s is outside the success range, the Executor returns one item, broken, with
\* the reason "Page returned status s", empty scraped_html and puppeteer_used
\* false, and "Analyzing galleries..." is not reported.
C18_StatusOutsideSuccessRange ==
    [][(pc = "text1" /\ RunEnds /\ faults' = faults
          /\ ~Blocked(ex.response) /\ ex.response.status \notin 200..299) =>
          /\ Ended.kind = "returned"
          /\ Len(Ended.items) = 1
          /\ Ended.items[1].status = "broken"
          /\ Ended.items[1].reason = "Page returned status " \o ToString(ex.response.status)
          /\ Ended.items[1].scraped_html = <<>>
          /\ ~Ended.items[1].puppeteer_used
          /\ ~Ended.items[1].cloudflare_blocked
          /\ Readable => /\ FinalSteps # {}
                          /\ \A st \in FinalSteps : "Analyzing galleries..." \notin Range(st)]_vars

\* the final record of a URL whose fallback response had status 404
C18_Witness ==
    \E k \in Finals(stream) :
        /\ Len(stream[k].items) = 1
        /\ stream[k].items[1].reason = "Page returned status 404"
        /\ "Puppeteer failed, using fetch..." \in Range(stream[k].steps)

\* the page_url values of a list of items
PageUrls(items) == {items[i].page_url : i \in 1..Len(items)}

\* the page_url values of the items carried by the final events of a stream
ReceivedUrls(str) == UNION {PageUrls(str[k].items) : k \in Finals(str)}

\* the step of startScan that stores the ScanResult (page.tsx 150)
ResultStored == ~results.set /\ results'.set

\* C19: when the stream of a batch ends normally, the stored ScanResult holds
\* exactly one representative for each distinct page_url among the items of
\* this batch's final events, and its four counts are the numbers of
\* representatives with that status or flag
C19_ResultFromThisBatch ==
    [][ResultStored =>
          LET reps == results'.items
          IN  /\ PageUrls(reps) = ReceivedUrls(stream)
              /\ \A i, j \in 1..Len(reps) : reps[i].page_url = reps[j].page_url => i = j
              /\ results'.broken_count = CountStatus(reps, "broken")
              /\ results'.working_count = CountStatus(reps, "working")
              /\ results'.no_gallery_count = CountStatus(reps, "no curated gallery")
              /\ results'.cloudflare_blocked_count =
                     Cardinality({i \in 1..Len(reps) : reps[i].cloudflare_blocked})]_vars

\* the items of page_url u in a list, and the representative of u
ItemsOf(items, u) == SelectSeq(items, LAMBDA it : it.page_url = u)
RepOf(reps, u) == reps[RepIndex(reps, u, 1)]

\* C20: in the collapse by page_url broken dominates whatever the order: for
\* every page_url whose items include a broken one, at any position, the
\* representative after the collapse has status "broken"
C20_BrokenDominates ==
    collapseOut # <<>> =>
        \A u \in Urls :
            "broken" \in Range(StatusesOf(ItemsOf(collapseIn, u))) =>
                /\ RepIndex(collapseOut, u, 1) # 0
                /\ RepOf(collapseOut, u).status = "broken"

\* collapsed: a URL whose first item is working, then no curated gallery, and
\* whose broken item comes last
C20_Witness ==
    /\ collapseOut # <<>>
    /\ \E u \in Urls :
          /\ StatusesOf(ItemsOf(collapseIn, u)) = <<"working", "no curated gallery", "broken">>
          /\ RepOf(collapseOut, u).status = "broken"

\* some item of a list has the cloudflare_blocked flag
AnyBlocked(items) == \E i \in 1..Len(items) : items[i].cloudflare_blocked

Stage(status) == IF status = "pending" THEN 0 ELSE IF status = "processing" THEN 1 ELSE 2

\* the step is the call of startScan that begins a batch (page.tsx 71-74)
BatchBegins == ~isScanning /\ isScanning'

\* C23: in the live state of a batch every URLScanStatus is created "pending"
\* with empty steps and its status only moves forward (pending, processing,
\* finished); an entry that has its final event never goes back to processing
\* or pending before the batch ends
C23_StatusMovesForward ==
    [][/\ BatchBegins =>
             \A i \in 1..Len(liveResults') :
                 liveResults'[i].status = "pending" /\ liveResults'[i].steps = <<>>
       /\ ~BatchBegins =>
             /\ Len(liveResults') = Len(liveResults)
             /\ \A i \in 1..Len(liveResults) :
                    Stage(liveResults'[i].status) >= Stage(liveResults[i].status)]_vars

\* the log t is the log s with labels appended
Extends(t, s) == Len(s) <= Len(t) /\ SubSeq(t, 1, Len(s)) = s

\* the positions in a stream of the events for URL u
EventsFor(str, u) == {k \in 1..Len(str) : str[k].url = u}

\* in a stream, every event for a URL extends the previous event for that URL,
\* and the first event for a URL has one step
StreamCumulative(str) ==
    \A u \in Urls :
        \A l \in EventsFor(str, u) :
            LET before == {k \in EventsFor(str, u) : k < l}
            IN  IF before = {} THEN Len(str[l].steps) = 1
                ELSE Extends(str[l].steps,
                             str[CHOOSE k \in before : \A j \in before : j <= k].steps)

\* C24: the steps log of a URL is cumulative and append-only: in the stream
\* each event for a URL extends the steps of the previous event for that URL
\* (the first event has one step), and the steps stored in the client for a
\* URLScanStatus are never shortened or rewritten during a batch
C24_StepsAppendOnly ==
    [][/\ StreamCumulative(stream')
       /\ ~BatchBegins =>
             /\ Len(liveResults') = Len(liveResults)
             /\ \A i \in 1..Len(liveResults) :
                    Extends(liveResults'[i].steps, liveResults[i].steps)]_vars

\* C25: scan targets are de-duplicated by exact string match before scanning:
\* the Executor is started at most once for a URL string in a batch and only
\* one URLScanStatus exists for it
C25_TargetsDeduplicated ==
    /\ \A i, j \in started : urls[i] = urls[j] => i = j
    /\ \A i, j \in 1..Len(liveResults) : liveResults[i].url = liveResults[j].url => i = j

\* C26: an entry of the urls list that does not begin with "http://" or
\* "https://" is rejected or skipped by the endpoint: no browser navigation and
\* no HTTP GET is attempted for it, and it gets no final event with status
\* "working" or "no curated gallery"
C26_MalformedEntrySkipped ==
    /\ pc \in {"goto", "fetch"} => BeginsWithHttp(urls[idx])
    /\ \A k \in Finals(stream) :
           ~BeginsWithHttp(stream[k].url) =>
               stream[k].status \notin {"working", "no curated gallery"}

\* C27: detectCloudflareBlocking returns true whenever the status code is 403,
\* 429 or 503, for every combination of headers (including none) and every body
C27_BlockedStatusCodes ==
    detectIn.status \in {403, 429, 503} =>
        \A n \in 1..Len(detectOut) : detectOut[n] = TRUE

\* called on status 503 with no header and an empty body
C27_Witness ==
    /\ detectIn = Response(503, "", "", <<>>)
    /\ detectOut = <<TRUE>>

\* C28: detectCloudflareBlocking returns true whenever the server header
\* contains "cloudflare" in any letter case, or a cf-ray header is present,
\* for every status code and body
C28_CloudflareHeaders ==
    (IncludesCloudflare(LowerCase(detectIn.headers.server)) \/ detectIn.headers.cfRay # "") =>
        \A n \in 1..Len(detectOut) : detectOut[n]

\* the status is not 403, 429 or 503 and the response has neither a
\* cloudflare server header nor a cf-ray header
NoStatusNoHeader(response) ==
    /\ response.status \notin {403, 429, 503}
    /\ ~IncludesCloudflare(LowerCase(response.headers.server))
    /\ response.headers.cfRay = ""

\* C29: on inputs whose status is not 403/429/503 and that have neither a
\* cloudflare server header nor a cf-ray header, detectCloudflareBlocking
\* returns true exactly when the body contains one of the four challenge
\* texts, and a second call on the same input returns the same
C29_BodyDecidesOtherwise ==
    NoStatusNoHeader(detectIn) =>
        \A n \in 1..Len(detectOut) :
            detectOut[n] = (\E i \in 1..Len(detectIn.body) :
                               detectIn.body[i] \in {"RL", "CB", "CC", "RAY"})

\* called twice on a 200 response of nginx whose body holds
\* "cloudflare-challenge", and twice on one with a clean body
C29_Witness ==
    /\ detectIn \in {Response(200, "nginx", "", <<"CC">>), Response(404, "nginx", "", <<"I">>)}
    /\ Len(detectOut) = 2
    /\ detectOut[1] = ("CC" \in Range(detectIn.body))

\* C30: two requests handled at the same time are independent: every record
\* on a request's stream carries the URL that request has at the record's
\* position, and its steps are labels that this request's own Executor run
\* reported for that URL, in the order it reported them
C30_RunsIndependent ==
    \A r \in RunIds :
        \A k \in 1..Len(runs[r].stream) :
            LET ev == runs[r].stream[k]
            IN  /\ ev.pos \in 1..Len(runs[r].urls)
                /\ ev.url = runs[r].urls[ev.pos]
                /\ Extends(runs[r].reported[ev.pos], ev.steps)

\* both requests scan the same URL and are in the middle of it, each with
\* records on its stream, and one has got further than the other
C30_Witness ==
    /\ runs[1].pc = "exec" /\ runs[2].pc = "exec"
    /\ runs[1].urls[runs[1].idx] = runs[2].urls[runs[2].idx]
    /\ Len(runs[1].stream) >= 1
    /\ Len(runs[2].stream) > Len(runs[1].stream)
    /\ runs[1].steps # runs[2].steps

\* C31: browser resources are released on every exit path of the primary
\* path: whenever the Executor returns or raises for a URL, the browser
\* launched for that URL has been closed (here: while the client is connected)
C31_BrowserReleased ==
    [][(RunEnds /\ Readable) => idx \notin openBrowsers']_vars

\* the awaits of the primary path (route.ts 241-286) and of the fallback (303-347)
PrimaryPcs == {"import", "launch", "newPage", "goto", "waitForSelector", "settle",
               "content", "close"}
FallbackPcs == {"fetch", "text1", "text2"}

\* the Executor returns from the await of browser.close(): the items are the
\* classification of the DOM that page.content() captured
FromPrimaryHtml == pc = "close"

NothingRejected == pc \in PrimaryPcs \cup FallbackPcs /\ faults' = faults

\* C33: a failure inside the progress callback onStep (enqueueing on a stream
\* that is already cancelled) is swallowed: it never propagates out of the
\* Executor and it does not switch the fetch from the primary path to the
\* fallback
C33_OnStepFailureSwallowed ==
    [][(streamState = "cancelled" /\ NothingRejected) =>
          /\ ~(pc \in PrimaryPcs /\ pc' = "fetch")
          /\ ~(RunEnds /\ Ended.kind = "raised")]_vars

\* C34: when page.goto on the primary path times out or fails, the scan of
\* the URL is not aborted and does not switch to the fallback: it goes on
\* with the selector wait on the same browser, and the DOM captured
\* afterwards is the one that is classified
C34_NavigationFailureContinues ==
    [][/\ (pc = "goto" /\ faults' # faults) =>
             /\ pc' = "waitForSelector"
             /\ idx' = idx
             /\ openBrowsers' = openBrowsers
             /\ ~RunEnds
       /\ (pc = "close" /\ pc' # pc /\ ex.cloudflareBlocked /\ Readable /\ faults' = faults) =>
             /\ RunEnds
             /\ Ended.kind = "returned"
             /\ Ended.items = classify(urls[idx], ExtractBody(ex.html), TRUE)]_vars

\* a URL whose final record shows DOM capture and analysis without "Page
\* loaded": the navigation failed and the scan went on to classify the DOM
C34_Witness ==
    \E k \in Finals(stream) :
        /\ "Page loaded" \notin Range(stream[k].steps)
        /\ "Capturing DOM..." \in Range(stream[k].steps)
        /\ "Analysis complete" \in Range(stream[k].steps)
        /\ "Puppeteer failed, using fetch..." \notin Range(stream[k].steps)
        /\ Len(stream[k].items) > 0
        /\ stream[k].items[1].puppeteer_used

\* C35: when page.goto on the primary path times out or fails, the items the
\* Executor returns for that URL carry cloudflare_blocked = true
C35_NavigationFailureFlagsItems ==
    [][(pc = "close" /\ ex.cloudflareBlocked /\ Readable /\ RunEnds
           /\ Ended.kind = "returned") =>
          \A i \in 1..Len(Ended.items) : Ended.items[i].cloudflare_blocked]_vars

\* C36: every item of the classification, the "no curated gallery" item
\* included, carries the cleaned HTML of the page as scraped_html and the
\* puppeteer_used flag of the fetch that produced the HTML
C36_ItemsCarryHtml ==
    classPage.classified =>
        \A i \in 1..Len(classItems) :
            /\ classItems[i].scraped_html = classPage.html
            /\ classItems[i].puppeteer_used = classPage.pu

\* the positions of token t in h
Positions(h, t) == {i \in 1..Len(h) : h[i] = t}

\* h has exactly two container elements, the second inside the first, both
\* closed, and no video
TwoNested(h) ==
    /\ Cardinality(Positions(h, "C")) = 2
    /\ Positions(h, "V") = {}
    /\ \E i, j \in Positions(h, "C") :
          /\ i < j
          /\ \A e \in Positions(h, "E") : e > j
          /\ Cardinality(Positions(h, "E")) >= 2

\* C37: nested containers are matched independently: for HTML in which a
\* container is nested inside another container, each of the two is detected
\* and classified on its own, so that two non-video containers yield two items
C37_NestedMatchedIndependently ==
    (classPage.classified /\ TwoNested(classPage.html)) => Len(classItems) = 2

\* the submitted URLs are pairwise different
DistinctUrls(list) == \A i, j \in 1..Len(list) : list[i] = list[j] => i = j

\* C38: the live view and the batch summary agree: after a batch of distinct
\* URLs completes normally, every URL that received a final event has exactly
\* one representative in ScanResult.items, with the status of that final
\* event, so the three status counts add up to total_pages, the number of
\* submitted URLs
C38_SummaryAgreesWithLiveView ==
    [][(ResultStored /\ DistinctUrls(urls)) =>
          LET reps == results'.items
          IN  /\ \A k \in Finals(stream) :
                     /\ Cardinality({i \in 1..Len(reps) :
                                        reps[i].page_url = stream[k].url}) = 1
                     /\ \A i \in 1..Len(reps) :
                            reps[i].page_url = stream[k].url =>
                                reps[i].status = stream[k].status
              /\ results'.total_pages = Len(urls)
              /\ results'.broken_count + results'.working_count
                     + results'.no_gallery_count = results'.total_pages]_vars

====
